---- MODULE Spec2Model ----
(***************************************************************************)
(* EKF SLAM estimator of nuslam (src/nuslam/src/nuslam/ekf_slam.cpp):      *)
(* the state (prev_state, sigma), the prediction step MotionModelUpdate    *)
(* and the measurement step MeasurmentModelUpdate, with the helpers they   *)
(* call, and the process-wide random generator shared by all instances.    *)
(*                                                                         *)
(* Numbers.  A double is modelled exactly where that is possible: a value  *)
(* is q + p*pi with q and p rationals (kind "num"), or NaN (kind "nan").   *)
(* Results that are finite but not of that form (cos of an angle off the   *)
(* quarter-turn lattice, the root of a non-square, a product of two        *)
(* multiples of pi) are the token "fin", an infinity is "inf" and a value  *)
(* of which nothing is known is "top".  Only the identities IEEE-754       *)
(* guarantees are applied to tokens (0*finite = 0, 0*inf = NaN, NaN        *)
(* absorbs).  A call whose result would store a token in prev_state or     *)
(* sigma is outside what the model represents and is not taken.            *)
(***************************************************************************)
EXTENDS Integers, Sequences, FiniteSets, TLC

(***************************************************************************)
(* Rationals: <<n, d>> with d > 0 and gcd(|n|, d) = 1.                      *)
(***************************************************************************)
Abs(n) == IF n < 0 THEN -n ELSE n

RECURSIVE Gcd(_, _)
Gcd(a, b) == IF b = 0 THEN a ELSE Gcd(b, a % b)

RNorm(n, d) ==
  LET g == Gcd(Abs(n), Abs(d))
      s == IF d < 0 THEN -1 ELSE 1
  IN  <<s * (n \div g), s * (d \div g)>>

RZero == <<0, 1>>
ROne == <<1, 1>>
RInt(n) == <<n, 1>>
RNeg(a) == <<-a[1], a[2]>>

\* numerators and denominators are kept below this in magnitude; a rational that
\* needs more is not represented (ROver)
RLimit == 1000000000
ROver == <<0, 0>>

Fits(x, y) == x = 0 \/ y = 0 \/ Abs(x) <= RLimit \div Abs(y)

RAdd(a, b) ==
  IF a[2] = 0 \/ b[2] = 0 THEN ROver
  ELSE IF a[1] = 0 THEN b
  ELSE IF b[1] = 0 THEN a
  ELSE IF a[2] = 1 /\ b[2] = 1
       THEN (IF Abs(a[1]) <= RLimit /\ Abs(b[1]) <= RLimit THEN <<a[1] + b[1], 1>> ELSE ROver)
  ELSE LET g == Gcd(a[2], b[2])
       IN  IF Fits(a[1], b[2] \div g) /\ Fits(b[1], a[2] \div g) /\ Fits(a[2] \div g, b[2])
           THEN RNorm(a[1] * (b[2] \div g) + b[1] * (a[2] \div g), (a[2] \div g) * b[2])
           ELSE ROver

RMul(a, b) ==
  IF a[2] = 0 \/ b[2] = 0 THEN ROver
  ELSE IF a[1] = 0 \/ b[1] = 0 THEN RZero
  ELSE IF a[2] = 1 /\ b[2] = 1
       THEN (IF Fits(a[1], b[1]) THEN <<a[1] * b[1], 1>> ELSE ROver)
  ELSE LET g1 == Gcd(Abs(a[1]), b[2])
           g2 == Gcd(Abs(b[1]), a[2])
       IN  IF Fits(a[1] \div g1, b[1] \div g2) /\ Fits(a[2] \div g2, b[2] \div g1)
           THEN <<(a[1] \div g1) * (b[1] \div g2), (a[2] \div g2) * (b[2] \div g1)>>
           ELSE ROver

\* 1/a for a # 0
RInv(a) == IF a[1] < 0 THEN <<-a[2], -a[1]>> ELSE <<a[2], a[1]>>

RSign(a) == IF a[1] > 0 THEN 1 ELSE IF a[1] < 0 THEN -1 ELSE 0

\* a < b
RLess(a, b) == RSign(RAdd(a, RNeg(b))) < 0

\* floor of the square root of n >= 0, by bisection on [lo, hi]
RECURSIVE ISqrtIn(_, _, _)
ISqrtIn(n, lo, hi) ==
  IF lo >= hi THEN lo
  ELSE LET mid == (lo + hi + 1) \div 2
       IN  IF mid <= n \div mid THEN ISqrtIn(n, mid, hi) ELSE ISqrtIn(n, lo, mid - 1)

ISqrt(n) == IF n < 2 THEN n ELSE ISqrtIn(n, 1, n \div 2)

(***************************************************************************)
(* Values: the doubles of the program.                                     *)
(***************************************************************************)
Tok(kind) == [k |-> kind, q |-> RZero, p |-> RZero]
\* q + p*pi, or the token "fin" when q or p is not represented
Num(q, p) == IF q[2] = 0 \/ p[2] = 0 THEN Tok("fin") ELSE [k |-> "num", q |-> q, p |-> p]

NaN == Tok("nan")
Fin == Tok("fin")
Inf == Tok("inf")
Top == Tok("top")

Zero == Num(RZero, RZero)
One == Num(ROne, RZero)
IntV(n) == Num(RInt(n), RZero)
RatV(n, d) == Num(RNorm(n, d), RZero)
\* (n/d) * pi
PiV(n, d) == Num(RZero, RNorm(n, d))

IsNum(a) == a.k = "num"
IsNaN(a) == a.k = "nan"
IsZero(a) == IsNum(a) /\ a.q = RZero /\ a.p = RZero
IsRat(a) == IsNum(a) /\ a.p = RZero
IsPiMult(a) == IsNum(a) /\ a.q = RZero

\* pi lies strictly between 333/106 and 355/113
PiLo == <<333, 106>>
PiHi == <<355, 113>>

\* the sign of q + p*pi: 1, -1, 0, or 2 when these bounds on pi do not decide it
\* for q and p of opposite signs sq and sp, and r = |q| / |p|
SignByRatio(r, sq, sp) ==
  IF RLess(r, PiLo) THEN sp
  ELSE IF RLess(PiHi, r) THEN sq
  ELSE 2

Sign(a) ==
  LET sq == RSign(a.q)
      sp == RSign(a.p)
  IN  IF sp = 0 THEN sq
      ELSE IF sq = 0 \/ sq = sp THEN sp
      ELSE SignByRatio(RMul(<<Abs(a.q[1]), a.q[2]>>, RInv(<<Abs(a.p[1]), a.p[2]>>)), sq, sp)

VNeg(a) == IF IsNum(a) THEN Num(RNeg(a.q), RNeg(a.p)) ELSE a

VAdd(a, b) ==
  IF a.k = "num" /\ b.k = "num"
  THEN (IF a.q[1] = 0 /\ a.p[1] = 0 THEN b
        ELSE IF b.q[1] = 0 /\ b.p[1] = 0 THEN a
        ELSE Num(RAdd(a.q, b.q), RAdd(a.p, b.p)))
  ELSE IF IsNaN(a) \/ IsNaN(b) THEN NaN
  ELSE IF a.k = "top" \/ b.k = "top" THEN Top
  ELSE IF a.k = "inf" /\ b.k = "inf" THEN Top
  ELSE IF a.k = "inf" \/ b.k = "inf" THEN Inf
  ELSE IF IsZero(a) THEN b
  ELSE IF IsZero(b) THEN a
  ELSE IF a.k = "fin" \/ b.k = "fin" THEN Fin
  ELSE Num(RAdd(a.q, b.q), RAdd(a.p, b.p))

VSub(a, b) == VAdd(a, VNeg(b))

VMul(a, b) ==
  IF a.k = "num" /\ b.k = "num"
  THEN (IF (a.q[1] = 0 /\ a.p[1] = 0) \/ (b.q[1] = 0 /\ b.p[1] = 0) THEN Zero
        ELSE IF a.p[1] # 0 /\ b.p[1] # 0 THEN Fin
        ELSE Num(RMul(a.q, b.q), RAdd(RMul(a.q, b.p), RMul(a.p, b.q))))
  ELSE IF IsNaN(a) \/ IsNaN(b) THEN NaN
  ELSE IF a.k = "top" \/ b.k = "top" THEN Top
  ELSE IF a.k = "inf" \/ b.k = "inf"
       THEN (IF IsZero(a) \/ IsZero(b) THEN NaN
             ELSE IF a.k = "fin" \/ b.k = "fin" THEN Top
             ELSE Inf)
  ELSE IF IsZero(a) \/ IsZero(b) THEN Zero
  ELSE IF a.k = "fin" \/ b.k = "fin" THEN Fin
  ELSE IF a.p # RZero /\ b.p # RZero THEN Fin
  ELSE Num(RMul(a.q, b.q), RAdd(RMul(a.q, b.p), RMul(a.p, b.q)))

VDiv(a, b) ==
  IF IsNaN(a) \/ IsNaN(b) THEN NaN
  ELSE IF a.k = "top" \/ b.k = "top" THEN Top
  ELSE IF b.k = "inf" THEN (IF a.k = "inf" THEN NaN ELSE Zero)
  ELSE IF b.k = "fin" THEN Top
  ELSE IF IsZero(b) THEN (IF IsZero(a) THEN NaN ELSE IF a.k = "fin" THEN Top ELSE Inf)
  ELSE IF a.k = "inf" THEN Inf
  ELSE IF a.k = "fin" THEN Fin
  ELSE IF IsZero(a) THEN Zero
  ELSE IF b.p = RZero
       THEN Num(RMul(a.q, RInv(b.q)), RMul(a.p, RInv(b.q)))
  ELSE IF b.q = RZero /\ a.q = RZero
       THEN Num(RMul(a.p, RInv(b.p)), RZero)
  ELSE Fin

\* sqrt of the number a of sign s, rn and rd being the integer roots of the
\* numerator and the denominator of a.q
SqrtBySign(a, s, rn, rd) ==
  IF s = 2 THEN Top
  ELSE IF s < 0 THEN NaN
  ELSE IF a.p # RZero THEN Fin
  ELSE IF rn * rn = a.q[1] /\ rd * rd = a.q[2] THEN Num(<<rn, rd>>, RZero)
  ELSE Fin

\* sqrt
VSqrt(a) ==
  IF IsNaN(a) THEN NaN
  ELSE IF a.k = "inf" \/ a.k = "top" \/ a.k = "fin" THEN Top
  ELSE SqrtBySign(a, Sign(a), ISqrt(a.q[1]), ISqrt(a.q[2]))

\* the number of quarter turns in a, when a is a whole number of them
IsQuarterTurns(a) == IsPiMult(a) /\ a.p[2] \in {1, 2}
QuarterTurns(a) == (a.p[1] * (2 \div a.p[2])) % 4

\* cos and sin
VCos(a) ==
  IF IsNaN(a) \/ a.k = "inf" THEN NaN
  ELSE IF a.k = "top" THEN Top
  ELSE IF IsQuarterTurns(a)
       THEN (CASE QuarterTurns(a) = 0 -> One
               [] QuarterTurns(a) = 1 -> Zero
               [] QuarterTurns(a) = 2 -> IntV(-1)
               [] QuarterTurns(a) = 3 -> Zero)
  ELSE Fin

VSin(a) ==
  IF IsNaN(a) \/ a.k = "inf" THEN NaN
  ELSE IF a.k = "top" THEN Top
  ELSE IF IsQuarterTurns(a)
       THEN (CASE QuarterTurns(a) = 0 -> Zero
               [] QuarterTurns(a) = 1 -> One
               [] QuarterTurns(a) = 2 -> Zero
               [] QuarterTurns(a) = 3 -> IntV(-1))
  ELSE Fin

\* atan2(y, x), exact on the axes and the diagonals; atan2(0, 0) = 0
Atan2BySign(y, x, sy, sx) ==
  IF sy = 2 \/ sx = 2 THEN Fin
  ELSE IF sy = 0 THEN (IF sx >= 0 THEN Zero ELSE PiV(1, 1))
  ELSE IF sx = 0 THEN PiV(sy, 2)
  ELSE IF IsRat(y) /\ IsRat(x) /\ RMul(y.q, RInv(x.q)) \in {ROne, RInt(-1)}
       THEN (IF sx > 0 THEN PiV(sy, 4) ELSE PiV(3 * sy, 4))
  ELSE Fin

VAtan2(y, x) ==
  IF IsNaN(y) \/ IsNaN(x) THEN NaN
  ELSE IF ~IsNum(y) \/ ~IsNum(x) THEN Top
  ELSE Atan2BySign(y, x, Sign(y), Sign(x))

(***************************************************************************)
(* rigid2d::normalize_angle: the angle a brought into (-pi, pi].           *)
(***************************************************************************)
TurnRange == -4 .. 4

InHalfOpenTurn(a) == Sign(VAdd(a, PiV(1, 1))) = 1 /\ Sign(VSub(a, PiV(1, 1))) \in {-1, 0}

\* a less the whole turns ks picks out
WrapBy(a, ks) == IF ks = {} THEN Fin ELSE VSub(a, PiV(2 * (CHOOSE k \in ks : TRUE), 1))

normalize_angle(a) ==
  IF IsNaN(a) \/ a.k = "inf" THEN NaN
  ELSE IF a.k = "top" THEN Top
  ELSE IF a.k = "fin" THEN Fin
  ELSE WrapBy(a, {k \in TurnRange : InHalfOpenTurn(VSub(a, PiV(2 * k, 1)))})

(***************************************************************************)
(* Dense vectors and matrices (Eigen::VectorXd, Eigen::MatrixXd): tuples,  *)
(* read with the 0-based indices of the source.                            *)
(***************************************************************************)
RECURSIVE ToSeq(_, _)
ToSeq(f, n) == IF n = 0 THEN <<>> ELSE Append(ToSeq(f, n - 1), f[n - 1])

\* the tuple <<F(0), ..., F(n-1)>>, each entry evaluated once
MkSeq(n, F(_)) == ToSeq([i \in 0 .. n - 1 |-> F(i)], n)

At(v, i) == v[i + 1]
El(m, r, c) == m[r + 1][c + 1]

MkMat(rows, cols, F(_, _)) == MkSeq(rows, LAMBDA r : MkSeq(cols, LAMBDA c : F(r, c)))

RECURSIVE SumSeq(_, _)
SumSeq(s, n) == IF n = 0 THEN Zero ELSE VAdd(SumSeq(s, n - 1), s[n])

\* F(0) + ... + F(n-1), summed in index order
SumTo(n, F(_)) == SumSeq(MkSeq(n, F), n)

\* Eigen operator* of an r x n by an n x c matrix.  (The operands are bound as
\* values first, so that each is computed once.)
RECURSIVE Dot(_, _, _, _, _)
Dot(A, B, i, j, n) ==
  IF n = 0 THEN Zero ELSE VAdd(Dot(A, B, i, j, n - 1), VMul(A[i + 1][n], B[n][j + 1]))

MatMul(A0, B0, r, n, c) ==
  CHOOSE M \in { MkMat(r, c, LAMBDA i, j : Dot(A, B, i, j, n)) : A \in {A0}, B \in {B0} } : TRUE

MatAdd(A0, B0, r, c) ==
  CHOOSE M \in { MkMat(r, c, LAMBDA i, j : VAdd(El(A, i, j), El(B, i, j)))
                 : A \in {A0}, B \in {B0} } : TRUE

MatSub(A0, B0, r, c) ==
  CHOOSE M \in { MkMat(r, c, LAMBDA i, j : VSub(El(A, i, j), El(B, i, j)))
                 : A \in {A0}, B \in {B0} } : TRUE

Transpose(A0, r, c) ==
  CHOOSE M \in { MkMat(c, r, LAMBDA i, j : El(A, j, i)) : A \in {A0} } : TRUE

MatZero(r, c) == MkMat(r, c, LAMBDA i, j : Zero)
Identity(n) == MkMat(n, n, LAMBDA i, j : IF i = j THEN One ELSE Zero)

VecAdd(u0, v0, n) ==
  CHOOSE w \in { MkSeq(n, LAMBDA i : VAdd(At(u, i), At(v, i))) : u \in {u0}, v \in {v0} } : TRUE

MatVec(A0, v0, r, c) ==
  CHOOSE w \in { MkSeq(r, LAMBDA i : SumTo(c, LAMBDA k : VMul(El(A, i, k), At(v, k))))
                 : A \in {A0}, v \in {v0} } : TRUE

(***************************************************************************)
(* Eigen's LLT (llt_inplace, unblocked) on a 3x3 matrix, and matrixL():    *)
(* column k is finished unless its pivot x is <= 0, where the              *)
(* factorization stops and leaves the rest of the matrix as it was.        *)
(***************************************************************************)
LltPivot(A, k) == VSub(El(A, k, k), SumTo(k, LAMBDA j : VMul(El(A, k, j), El(A, k, j))))

LltColumn(A, k) ==
  LET x == VSqrt(LltPivot(A, k))
  IN  MkMat(3, 3, LAMBDA i, j :
        IF j # k \/ i < k THEN El(A, i, j)
        ELSE IF i = k THEN x
        ELSE VDiv(VSub(El(A, i, k), SumTo(k, LAMBDA m : VMul(El(A, i, m), El(A, k, m)))), x))

RECURSIVE LltFrom(_, _)
LltFrom(A, k) ==
  IF k = 3 THEN A
  ELSE IF IsNum(LltPivot(A, k)) /\ Sign(LltPivot(A, k)) \in {-1, 0} THEN A
  ELSE LltFrom(LltColumn(A, k), k + 1)

MatrixL(A) == MkMat(3, 3, LAMBDA i, j : IF j > i THEN Zero ELSE El(LltFrom(A, 0), i, j))

(***************************************************************************)
(* The estimator.                                                          *)
(***************************************************************************)
VARIABLES
  state_size,   \* Slam::state_size = 3 + 2*num_landmarks
  Qnoise,       \* Slam::Qnoise, 3x3
  Rnoise,       \* Slam::Rnoise, 3x3
  prev_state,   \* Slam::prev_state: [theta, x, y, mx_0, my_0, ...]
  sigma,        \* Slam::sigma, state_size x state_size
  asserts,      \* the build: TRUE when Eigen's assertions are compiled in (no NDEBUG)
  status,       \* "running", "aborted" (an assertion failed) or "undefined"
  calls,        \* number of calls made so far
  last,         \* history: the last call, its arguments and what it did
  observed,     \* history: the longest batch any update was given so far
  mt,           \* the state of the process-wide std::mt19937 of get_random()
  tpc,          \* per thread: where it is in its call
  tdraws,       \* per thread: draws its call has still to make
  tread         \* per thread: the generator state it read

vars == <<state_size, Qnoise, Rnoise, prev_state, sigma, asserts, status, calls, last,
          observed, mt, tpc, tdraws, tread>>

slamVars == <<state_size, Qnoise, Rnoise, prev_state, sigma, asserts, status, calls, last,
              observed>>
rngVars == <<mt, tpc, tdraws, tread>>

\* the most calls made on one estimator
MaxCalls == 3

\* the prior variance of a landmark coordinate
LandmarkPrior == 10000

LandmarkCounts == {1, 2}
\* the (q_var, r_var) pairs an estimator is constructed with
NoiseConfigs == { <<MatZero(3, 3), Identity(3)>>, <<Identity(3), MatZero(3, 3)>> }

Twist(wz, vx, vy) == [wz |-> wz, vx |-> vx, vy |-> vy]

Twists ==
  { Twist(Zero, Zero, Zero),
    Twist(Zero, One, Zero),
    Twist(Zero, One, One),
    Twist(PiV(1, 2), Zero, Zero),
    Twist(PiV(1, 2), PiV(1, 2), Zero) }

\* values of the three standard-normal draws of getStateNoise
StateSamples == { <<Zero, One, IntV(-1)>> }

\* an observation: a landmark centre (map_data.centers[i]); the radius is read and unused
Obs(x, y) == [x |-> x, y |-> y]
Batches ==
  { <<>>,
    <<Obs(Zero, Zero)>>,
    <<Obs(One, IntV(-1))>>,
    <<Obs(One, IntV(-1)), Obs(Zero, Zero)>> }

\* the two standard-normal draws of each getMeasurementNoise call of one update
Draw(s0, s1) == [s0 |-> s0, s1 |-> s1]
MeasDraws == { <<Draw(One, Zero), Draw(Zero, One)>> }

NoCall == [op |-> "new", tw |-> Twist(Zero, Zero, Zero), batch |-> <<>>,
           outcome |-> "ok", maxidx |-> -1, log |-> <<>>]

\* Slam::Slam
InitSigma(n) ==
  MkMat(n, n, LAMBDA i, j : IF i >= 3 /\ i = j THEN IntV(LandmarkPrior) ELSE Zero)

Stored(a) == IsNum(a) \/ IsNaN(a)
Representable(mu, sg, n) ==
  /\ \A i \in 0 .. n - 1 : Stored(At(mu, i))
  /\ \A i \in 0 .. n - 1 : \A j \in 0 .. n - 1 : Stored(El(sg, i, j))

\* getStateNoise without the Cholesky factor of Qnoise: the draws themselves
getStateNoiseUnscaled(Qn, samples) == samples

\* Slam::getStateNoise, samples being the three draws
getStateNoise(Qn, samples) ==
  LET l == MatrixL(Qn)
  IN  MkSeq(3, LAMBDA i :
        VAdd(VAdd(VMul(El(l, i, 0), At(samples, 0)), VMul(El(l, i, 1), At(samples, 1))),
             VMul(El(l, i, 2), At(samples, 2))))

\* the pose increment `update` of MotionModelUpdate at heading th
MotionUpdate(th, tw) ==
  IF IsZero(tw.wz)
  THEN << Zero, VMul(tw.vx, VCos(th)), VMul(tw.vy, VSin(th)) >>
  ELSE LET vel_ratio == VDiv(tw.vx, tw.wz)
       IN  << tw.wz,
              VAdd(VMul(VNeg(vel_ratio), VSin(th)), VMul(vel_ratio, VSin(VAdd(th, tw.wz)))),
              VSub(VMul(vel_ratio, VCos(th)), VMul(vel_ratio, VCos(VAdd(th, tw.wz)))) >>

\* its derivative `dupdate` with respect to the heading
MotionDupdate(th, tw) ==
  IF IsZero(tw.wz)
  THEN << Zero, VMul(VNeg(tw.vx), VSin(th)), VMul(tw.vx, VCos(th)) >>
  ELSE LET vel_ratio == VDiv(tw.vx, tw.wz)
       IN  << Zero,
              VAdd(VMul(VNeg(vel_ratio), VCos(th)), VMul(vel_ratio, VCos(VAdd(th, tw.wz)))),
              VAdd(VMul(VNeg(vel_ratio), VSin(th)), VMul(vel_ratio, VSin(VAdd(th, tw.wz)))) >>

\* Slam::updateCovarPrediction: the new sigma
CovarGt(n, dupdate) ==
  MatAdd(MkMat(n, n, LAMBDA i, j : IF j = 0 /\ i < 3 THEN At(dupdate, i) ELSE Zero),
         Identity(n), n, n)

CovarQbar(n, Qn) == MkMat(n, n, LAMBDA i, j : IF i < 3 /\ j < 3 THEN El(Qn, i, j) ELSE Zero)

updateCovarPrediction(sg, Qn, n, dupdate) ==
  CHOOSE S \in { MatAdd(MatMul(MatMul(Gt, sg, n, n, n), Transpose(Gt, n, n), n, n, n),
                        CovarQbar(n, Qn), n, n)
                 : Gt \in {CovarGt(n, dupdate)} } : TRUE

\* the pose block of prev_state after lines 84-86
PredictedState(mu, n, update, noise) ==
  MkSeq(n, LAMBDA i :
    IF i < 3 THEN VAdd(At(mu, i), VAdd(At(update, i), At(noise, i))) ELSE At(mu, i))

\* Slam::MotionModelUpdate(tw), noise being what its call of getStateNoise returns
MotionModelUpdate(tw, noise) ==
  /\ status = "running"
  /\ calls < MaxCalls
  /\ \E update \in {MotionUpdate(At(prev_state, 0), tw)} :
     \E dupdate \in {MotionDupdate(At(prev_state, 0), tw)} :
     \E mu2 \in {PredictedState(prev_state, state_size, update, noise)} :
     \E sg2 \in {updateCovarPrediction(sigma, Qnoise, state_size, dupdate)} :
      /\ Representable(mu2, sg2, state_size)
      /\ prev_state' = mu2
      /\ sigma' = sg2
      /\ calls' = calls + 1
      /\ last' = [op |-> "predict", tw |-> tw, batch |-> <<>>, outcome |-> "ok",
                  maxidx |-> -1, log |-> <<>>]
      /\ UNCHANGED <<state_size, Qnoise, Rnoise, asserts, status, observed>>
      /\ UNCHANGED rngVars

\* Slam::getMeasurementNoise: noise(0) and noise(1).  (noise(2) is never written and
\* no caller reads it.)
getMeasurementNoise(Rn, draw) ==
  LET l == MatrixL(Rn)
  IN  << VAdd(VMul(El(l, 0, 0), draw.s0), VMul(El(l, 0, 1), draw.s1)),
         VAdd(VMul(El(l, 1, 0), draw.s0), VMul(El(l, 1, 1), draw.s1)) >>

\* Slam::sensorModel: <<range, bearing>> of the point (x, y) seen from the pose in mu
\* lines 211-215, <<range, bearing>> from the two differences
RangeBearing(mu, x_diff, y_diff, noise) ==
  << VAdd(VSqrt(VAdd(VMul(x_diff, x_diff), VMul(y_diff, y_diff))), At(noise, 0)),
     normalize_angle(VAdd(VSub(VAtan2(y_diff, x_diff), At(mu, 0)), At(noise, 1))) >>

sensorModel(mu, x, y, noise) ==
  RangeBearing(mu, VSub(x, At(mu, 1)), VSub(y, At(mu, 2)), noise)

\* Slam::getHMatrix: the four blocks handed to the comma initializer, row by row
PtBlocks(x, y, d, sqd, id, n) ==
  << << <<Zero, VDiv(VNeg(x), sqd), VDiv(VNeg(y), sqd)>>,
        <<IntV(-1), VDiv(y, d), VDiv(x, d)>> >>,
     MatZero(2, 2 * id),
     << <<VDiv(x, sqd), VDiv(y, sqd)>>,
        <<VDiv(VNeg(y), d), VDiv(x, d)>> >>,
     MatZero(2, n - 3 - 2 * id) >>

HBlocks(x, y, d, id, n) == PtBlocks(x, y, d, VSqrt(d), id, n)

\* the widths of the blocks pt1, pt2, pt3 and pt4, and their sum: the number of
\* columns the comma initializer of line 235 is handed for the n columns of Hi
HWidths(b) == << Len(b[1][1]), Len(b[2][1]), Len(b[3][1]), Len(b[4][1]) >>

HCols(b) == Len(b[1][1]) + Len(b[2][1]) + Len(b[3][1]) + Len(b[4][1])

\* the 2 x n matrix Hi: the blocks side by side, as far as Hi reaches
JoinBlocks(b, n) ==
  << SubSeq(b[1][1] \o b[2][1] \o b[3][1] \o b[4][1], 1, n),
     SubSeq(b[1][2] \o b[2][2] \o b[3][2] \o b[4][2], 1, n) >>

getHMatrix(x, y, d, id, n) == JoinBlocks(HBlocks(x, y, d, id, n), n)

\* Eigen's inverse of a 2 x 2 matrix
InverseBy(S, invdet) ==
  << << VMul(El(S, 1, 1), invdet), VMul(VNeg(El(S, 0, 1)), invdet) >>,
     << VMul(VNeg(El(S, 1, 0)), invdet), VMul(El(S, 0, 0), invdet) >> >>

Inverse2(S) ==
  InverseBy(S, VDiv(One, VSub(VMul(El(S, 0, 0), El(S, 1, 1)), VMul(El(S, 1, 0), El(S, 0, 1)))))

\* line 193: the gain Ki
KalmanGain(sg, Hi, Rn, n) ==
  CHOOSE K \in { MatMul(MatMul(sg, Ht, n, n, 2),
                        Inverse2(MatAdd(MatMul(MatMul(Hi, sg, 2, n, n), Ht, 2, n, 2), Rn, 2, 2)),
                        n, 2, 2)
                 : Ht \in {Transpose(Hi, 2, n)} } : TRUE

\* lines 185-186: del_x and del_y
Deltas(mu, landmark_index) ==
  << VSub(At(mu, landmark_index), At(mu, 1)), VSub(At(mu, landmark_index + 1), At(mu, 2)) >>

\* line 188: what the code calls dist
SquaredDist(del_x, del_y) == VAdd(VMul(del_x, del_x), VMul(del_y, del_y))

\* the arguments of the getHMatrix call of line 190
Geometry(del, i) ==
  [i |-> i, del_x |-> del[1], del_y |-> del[2], dist |-> SquaredDist(del[1], del[2])]

\* line 196: z_actual - z_expected
Innovation(z_actual, z_expected) ==
  << VSub(At(z_actual, 0), At(z_expected, 0)), VSub(At(z_actual, 1), At(z_expected, 1)) >>

\* a pass that ends at a failed assertion, or goes wrong where there is none
Stopped(st, mode, maxidx, entry) ==
  [mu |-> st.mu, sg |-> st.sg,
   outcome |-> IF mode = "assert" THEN "aborted" ELSE "undefined",
   maxidx |-> maxidx, innov |-> <<>>, entry |-> entry]

\* what a pass records of its getHMatrix call
Entry(geom, blocks, n) ==
  [i |-> geom.i, del_x |-> geom.del_x, del_y |-> geom.del_y, dist |-> geom.dist,
   widths |-> HWidths(blocks), pt1 |-> blocks[1], pt3 |-> blocks[3],
   Hi |-> JoinBlocks(blocks, n)]

\* lines 196 and 199 with the gain Ki
Posterior(st, innov, entry, Ki, n) ==
  [mu |-> VecAdd(st.mu, MatVec(Ki, innov, n, 2), n),
   sg |-> MatMul(MatSub(Identity(n), MatMul(Ki, entry.Hi, n, 2, n), n, n), st.sg, n, n, n),
   outcome |-> "ok", maxidx |-> 3 + 2 * entry.i + 1,
   innov |-> innov, entry |-> <<entry>>]

\* line 235 and lines 193-199, blocks being what getHMatrix assembled
GainStep(st, innov, geom, blocks, n, Rn, mode) ==
  IF mode # "contained" /\ HCols(blocks) # n
  THEN Stopped(st, mode, 3 + 2 * geom.i + 1, <<Entry(geom, blocks, n)>>)
  ELSE Posterior(st, innov, Entry(geom, blocks, n),
                 KalmanGain(st.sg, JoinBlocks(blocks, n), Rn, n), n)

\* lines 190-199
JacobianStep(st, innov, geom, n, Rn, mode) ==
  GainStep(st, innov, geom, HBlocks(geom.del_x, geom.del_y, geom.dist, geom.i, n), n, Rn, mode)

\* one pass of the loop body of MeasurmentModelUpdate (lines 170-199) on the estimate
\* st = [mu, sg], for observation ob at batch position i.  The result is the new
\* estimate, how the pass ended, the largest index of prev_state it read, and a
\* record of what it computed.
\*   mode "assert": the build keeps Eigen's assertions, and the pass stops at the
\* first one that fails: the index check of prev_state(landmark_index), or the comma
\* initializer of getHMatrix, which is handed HCols columns for the n of Hi.
\*   Without assertions an index past the end of prev_state is read, and the comma
\* initializer writes past the columns of Hi; what follows is not defined by the
\* language.  mode "undefined" is the outcome where the program goes wrong there.
\* mode "contained" is the outcome where the stray write does no harm and the
\* arithmetic goes on as written, on the n columns Hi has and on the 2 x 2 corner of
\* Rnoise that matches H sigma H^T.
ObservationStep(st, ob, noise, i, n, Rn, mode) ==
  IF 3 + 2 * i + 1 >= n
  THEN Stopped(st, mode, IF mode = "assert" THEN -1 ELSE 3 + 2 * i + 1, <<>>)
  ELSE JacobianStep(st,
                    Innovation(sensorModel(st.mu, ob.x, ob.y, <<Zero, Zero>>),
                               sensorModel(st.mu, At(st.mu, 3 + 2 * i), At(st.mu, 3 + 2 * i + 1),
                                           noise)),
                    Geometry(Deltas(st.mu, 3 + 2 * i), i), n, Rn, mode)

\* what the loop carries on from a pass: the estimate, how the pass ended, the
\* largest index of prev_state read so far, and the log
Accumulate(acc, r) ==
  [mu |-> r.mu, sg |-> r.sg, outcome |-> r.outcome,
   maxidx |-> IF r.maxidx > acc.maxidx THEN r.maxidx ELSE acc.maxidx,
   log |-> acc.log \o
           [k \in 1 .. Len(r.entry) |->
              [i |-> r.entry[k].i, del_x |-> r.entry[k].del_x,
               del_y |-> r.entry[k].del_y, dist |-> r.entry[k].dist,
               widths |-> r.entry[k].widths, pt1 |-> r.entry[k].pt1,
               pt3 |-> r.entry[k].pt3, Hi |-> r.entry[k].Hi,
               innov |-> r.innov, outcome |-> r.outcome,
               changed |-> r.mu # acc.mu \/ r.sg # acc.sg]]]

\* the loop of MeasurmentModelUpdate from batch position i on; acc.log collects the
\* passes that reached getHMatrix: what it built, the innovation z_actual - z_expected
\* of line 196 (<<>> if the pass did not get there), and whether the estimate changed
RECURSIVE MeasurementLoop(_, _, _, _, _, _, _)
MeasurementLoop(acc, batch, noises, i, n, Rn, mode) ==
  IF i >= Len(batch) \/ acc.outcome # "ok" THEN acc
  ELSE MeasurementLoop(
         Accumulate(acc, ObservationStep(acc, batch[i + 1], noises[i + 1], i, n, Rn, mode)),
         batch, noises, i + 1, n, Rn, mode)

\* Slam::MeasurmentModelUpdate(map_data), noises[i+1] being what getMeasurementNoise
\* returns in pass i
MeasurmentModelUpdate(batch, noises, mode) ==
  /\ status = "running"
  /\ calls < MaxCalls
  /\ \E res \in { MeasurementLoop([mu |-> prev_state, sg |-> sigma, outcome |-> "ok",
                                   maxidx |-> -1, log |-> <<>>],
                                  batch, noises, 0, state_size, Rnoise, mode) } :
       /\ Representable(res.mu, res.sg, state_size)
       /\ prev_state' = res.mu
       /\ sigma' = res.sg
       /\ status' = IF res.outcome = "ok" THEN "running" ELSE res.outcome
       /\ last' = [op |-> "update", tw |-> Twist(Zero, Zero, Zero), batch |-> batch,
                   outcome |-> res.outcome, maxidx |-> res.maxidx, log |-> res.log]
  /\ calls' = calls + 1
  /\ observed' = IF Len(batch) > observed THEN Len(batch) ELSE observed
  /\ UNCHANGED <<state_size, Qnoise, Rnoise, asserts>>
  /\ UNCHANGED rngVars

\* the outcomes open to the build in use
Modes == IF asserts THEN {"assert"} ELSE {"contained", "undefined"}

Update ==
  \E batch \in Batches :
    \E noises \in { [k \in 1 .. Len(batch) |-> getMeasurementNoise(Rnoise, draws[k])]
                    : draws \in MeasDraws } :
      \E mode \in Modes :
        MeasurmentModelUpdate(batch, noises, mode)

Predict ==
  \E tw \in Twists :
    \E noise \in {getStateNoise(Qnoise, samples) : samples \in StateSamples} :
      MotionModelUpdate(tw, noise)

Init ==
  /\ \E num_landmarks \in LandmarkCounts :
       /\ state_size = 3 + 2 * num_landmarks
       /\ prev_state = MkSeq(3 + 2 * num_landmarks, LAMBDA i : Zero)
       /\ sigma = InitSigma(3 + 2 * num_landmarks)
  /\ \E cfg \in NoiseConfigs : Qnoise = cfg[1] /\ Rnoise = cfg[2]
  /\ asserts \in BOOLEAN
  /\ status = "running"
  /\ calls = 0
  /\ last = NoCall
  /\ observed = 0
  /\ mt = 0
  /\ tpc = <<"idle", "idle">>
  /\ tdraws = <<0, 0>>
  /\ tread = <<0, 0>>

Next == Predict \/ Update

Spec == Init /\ [][Next]_vars

(***************************************************************************)
(* Two threads, each working on a Slam instance of its own.  The only      *)
(* thing the instances share is the generator of get_random(); mt counts   *)
(* how often its state has been advanced.                                  *)
(***************************************************************************)
Threads == {1, 2}

\* the generator state from which no further call is started
MaxDraws == 4

\* Slam::getStateNoise entered by thread t (from MotionModelUpdate): three calls of
\* sampleNormalDistribution lie ahead
BeginStateNoise(t) ==
  /\ tpc[t] = "idle"
  /\ mt < MaxDraws
  /\ tpc' = [tpc EXCEPT ![t] = "call"]
  /\ tdraws' = [tdraws EXCEPT ![t] = 3]
  /\ UNCHANGED <<mt, tread>>
  /\ UNCHANGED slamVars

\* Slam::getMeasurementNoise entered by thread t (from one pass of
\* MeasurmentModelUpdate): two calls lie ahead
BeginMeasurementNoise(t) ==
  /\ tpc[t] = "idle"
  /\ mt < MaxDraws
  /\ tpc' = [tpc EXCEPT ![t] = "call"]
  /\ tdraws' = [tdraws EXCEPT ![t] = 2]
  /\ UNCHANGED <<mt, tread>>
  /\ UNCHANGED slamVars

\* sampleNormalDistribution, d(get_random()): get_random hands out the one generator,
\* with nothing to wait for, and the distribution reads its state
SampleRead(t) ==
  /\ tpc[t] = "call"
  /\ tpc' = [tpc EXCEPT ![t] = "inside"]
  /\ tread' = [tread EXCEPT ![t] = mt]
  /\ UNCHANGED <<mt, tdraws>>
  /\ UNCHANGED slamVars

\* ... and stores the advanced state
SampleWrite(t) ==
  /\ tpc[t] = "inside"
  /\ mt' = tread[t] + 1
  /\ tdraws' = [tdraws EXCEPT ![t] = tdraws[t] - 1]
  /\ tpc' = [tpc EXCEPT ![t] = IF tdraws[t] = 1 THEN "idle" ELSE "call"]
  /\ UNCHANGED tread
  /\ UNCHANGED slamVars

NextThreads ==
  \E t \in Threads :
    \/ BeginStateNoise(t)
    \/ BeginMeasurementNoise(t)
    \/ SampleRead(t)
    \/ SampleWrite(t)

SpecThreads == Init /\ [][NextThreads]_vars

(***************************************************************************)
(* Properties.                                                             *)
(***************************************************************************)
ZeroTwist == Twist(Zero, Zero, Zero)
ZeroQ == MatZero(3, 3)
NumLandmarks == (state_size - 3) \div 2

\* C1: in every reachable state the heading prev_state(0), when it is a number, lies
\* in (-pi, pi].
C1_HeadingInRange == IsNum(At(prev_state, 0)) => InHalfOpenTurn(At(prev_state, 0))

\* C2: a predict with wz = 0 on an estimator with Q = 0 changes the pose by
\* (0, vx cos(theta), vx sin(theta)), theta being the heading before the call.
C2_PureTranslation ==
  [][ ( /\ calls' = calls + 1
        /\ last'.op = "predict"
        /\ IsZero(last'.tw.wz)
        /\ Qnoise = ZeroQ )
      => /\ At(prev_state', 0) = At(prev_state, 0)
         /\ At(prev_state', 1) =
              VAdd(At(prev_state, 1), VMul(last'.tw.vx, VCos(At(prev_state, 0))))
         /\ At(prev_state', 2) =
              VAdd(At(prev_state, 2), VMul(last'.tw.vx, VSin(At(prev_state, 0)))) ]_vars

\* C3: in an update, a pass whose landmark estimate coincides with the robot position
\* (dist = 0) leaves prev_state and sigma as they were and raises nothing, and the
\* pass for the next observation of the batch is still made.  (Stated of the passes
\* whose behaviour is defined.)
C3_DegenerateSkipped ==
  last.op = "update" =>
    \A k \in 1 .. Len(last.log) :
      (IsZero(last.log[k].dist) /\ last.log[k].outcome # "undefined") =>
        /\ ~last.log[k].changed
        /\ last.log[k].outcome = "ok"
        /\ (k < Len(last.batch) /\ k < NumLandmarks => Len(last.log) > k)

\* C4: an update given more observations than there are landmarks ends with the
\* outcome ShapeMismatch and no pass has changed prev_state or sigma; and no update
\* reads or writes prev_state at an index >= state_size.
C4_OversizedBatchRejected ==
  last.op = "update" =>
    /\ last.maxidx < state_size
    /\ Len(last.batch) > NumLandmarks =>
         /\ last.outcome = "ShapeMismatch"
         /\ \A k \in 1 .. Len(last.log) : ~last.log[k].changed

\* C5: the two threads are never both between reading and writing the state of the
\* shared generator.
C5_DrawsSerialized == ~(tpc[1] = "inside" /\ tpc[2] = "inside")

\* C6: for every landmark j that no update has had as a batch position, the rows and
\* columns 3+2j, 3+2j+1 of sigma are as constructed: 10000 on the diagonal, zero
\* elsewhere.
C6_UnobservedPrior ==
  \A j \in 0 .. NumLandmarks - 1 :
    j >= observed =>
      \A r \in {3 + 2 * j, 3 + 2 * j + 1} :
        \A c \in 0 .. state_size - 1 :
          /\ El(sigma, r, c) = (IF r = c THEN IntV(LandmarkPrior) ELSE Zero)
          /\ El(sigma, c, r) = (IF r = c THEN IntV(LandmarkPrior) ELSE Zero)

\* C7: a predict with the zero twist on an estimator with Q = 0 leaves every entry of
\* prev_state and of sigma unchanged.
C7_ZeroTwistNoChange ==
  [][ ( /\ calls' = calls + 1
        /\ last'.op = "predict"
        /\ last'.tw = ZeroTwist
        /\ Qnoise = ZeroQ )
      => (prev_state' = prev_state /\ sigma' = sigma) ]_vars

\* C7, its case: a zero-twist predict with Q = 0 has just acted on an estimate that an
\* earlier predict and an earlier update have moved away from the constructed one.
C7_Witness ==
  /\ last.op = "predict"
  /\ last.tw = ZeroTwist
  /\ Qnoise = ZeroQ
  /\ At(prev_state, 1) = One
  /\ IsNum(El(sigma, 3, 3))
  /\ Sign(El(sigma, 3, 3)) = 1
  /\ El(sigma, 3, 3) # IntV(LandmarkPrior)

\* C8: the blocks getHMatrix builds for pass i have the widths 3, 2i, 2 and
\* N - 3 - 2i - 2, N being state_size, so that they fill the N columns of Hi.
C8_JacobianWidths ==
  last.op = "update" =>
    \A k \in 1 .. Len(last.log) :
      /\ last.log[k].widths =
           << 3, 2 * last.log[k].i, 2, state_size - 3 - 2 * last.log[k].i - 2 >>
      /\ last.log[k].widths[1] + last.log[k].widths[2] + last.log[k].widths[3]
           + last.log[k].widths[4] = state_size

\* C9: where dist > 0, row 1 of the pose block of the Jacobian is
\* [-1, del_y/dist, -del_x/dist], and its last entry is the negative of entry (1,1) of
\* the landmark block.
C9_BearingRow ==
  last.op = "update" =>
    \A k \in 1 .. Len(last.log) :
      Sign(last.log[k].dist) = 1 =>
        /\ last.log[k].pt1[2] =
             << IntV(-1), VDiv(last.log[k].del_y, last.log[k].dist),
                VNeg(VDiv(last.log[k].del_x, last.log[k].dist)) >>
        /\ last.log[k].pt1[2][3] = VNeg(last.log[k].pt3[2][2])

\* C10: the bearing component of the innovation z_actual - z_expected that an update
\* multiplies by the gain, when it is a number, lies in (-pi, pi].
C10_InnovationBearing ==
  last.op = "update" =>
    \A k \in 1 .. Len(last.log) :
      (last.log[k].innov # <<>> /\ IsNum(last.log[k].innov[2])) =>
        InHalfOpenTurn(last.log[k].innov[2])

====
